---- MODULE Spec2Model ----
(***************************************************************************)
(* Model of src/components/InsightsPanel.ts (class InsightsPanel):         *)
(*   - getImportanceScore and selectTopStories, the ranking functions;     *)
(*   - updateInsights, the asynchronous panel refresh with its brief       *)
(*     cooldown (lastBriefUpdate / cachedBrief).                           *)
(*                                                                         *)
(* Numbers.  A score is a rational number; the model stores its numerator  *)
(* over the fixed denominator ScoreDen = 2 * 720: the factor 2 clears the  *)
(* halves of the velocity multipliers (2.5, 1.5) and the factor 720 the    *)
(* recency multiplier, which is a multiple of 1/720 for every age that is  *)
(* a whole number of minutes.  All timestamps of the model are whole       *)
(* minutes (multiples of MsPerMinute milliseconds), so every score of the  *)
(* model is exact real arithmetic; IEEE rounding is not modelled.          *)
(*                                                                         *)
(* References.  A ClusteredEvent object is referred to by its index in the *)
(* array handed to selectTopStories; `selected` and the `cluster` field of *)
(* a scored entry hold such references.                                    *)
(***************************************************************************)
EXTENDS Integers, Sequences, FiniteSets, TLC

VARIABLES
  clock,            \* Date.now(), in milliseconds
  \* --- getImportanceScore applied to two clusters ---
  args,             \* the two clusters scored
  scores,           \* their scores (numerators over ScoreDen), <<>> before the call
  \* --- selectTopStories ---
  clusters,         \* argument: the array of clusters
  maxCount,         \* argument
  scored,           \* the sorted array of {cluster, score}
  selected,         \* the returned array (references into clusters)
  rpc,              \* "call" before selectTopStories runs, "returned" after
  \* --- InsightsPanel instance and its updateInsights invocations ---
  isHidden,
  lastBriefUpdate,
  cachedBrief,
  briefProvider,
  content,          \* what the last setContent call put on the panel
  inv,              \* per invocation: position and locals of updateInsights
  summaryCalls,     \* log of the generateSummary calls issued
  started           \* number of updateInsights invocations started so far

vars == <<clock, args, scores, clusters, maxCount, scored, selected, rpc,
          isHidden, lastBriefUpdate, cachedBrief, briefProvider, content,
          inv, summaryCalls, started>>

scoreVars == <<args, scores>>
rankVars  == <<clusters, maxCount, scored, selected, rpc>>
panelVars == <<isHidden, lastBriefUpdate, cachedBrief, briefProvider, content,
               inv, summaryCalls, started>>

----------------------------------------------------------------------------
\* Units and bounds

MsPerHour == 3600000

MsPerMinute == MsPerHour \div 60

\* decay window of the recency multiplier, in hours
DecayHours == 12

\* the recency multiplier is stored in 720ths (minutes of the decay window)
RecDen == DecayHours * 60

\* scores are stored as numerators over 2 * 720
ScoreDen == 2 * RecDen

\* Date.now() at the start of every behaviour (13 hours after the model's epoch)
Now0 == 13 * MsPerHour

MaxSourceCount == 3

\* longest cluster array handed to selectTopStories
MaxLen == 5

\* maxCount ranges over MinCountArg .. MaxCountArg
MinCountArg == 0 - 1

MaxCountArg == 5

\* Date.now() may advance by up to MaxDrift minutes while the candidates are scored
MaxDrift == 1

Max(a, b) == IF a >= b THEN a ELSE b

----------------------------------------------------------------------------
\* Titles and keywords (strings are sequences of characters)

CRITICAL_KEYWORDS ==
  { <<"w","a","r">>,
    <<"a","r","m","a","d","a">>,
    <<"m","i","l","i","t","a","r","y">>,
    <<"a","t","t","a","c","k">>,
    <<"i","n","v","a","s","i","o","n">>,
    <<"s","t","r","i","k","e">>,
    <<"t","r","o","o","p","s">>,
    <<"m","i","s","s","i","l","e">>,
    <<"n","u","c","l","e","a","r">>,
    <<"b","o","m","b">>,
    <<"a","i","r","s","t","r","i","k","e">>,
    <<"a","r","t","i","l","l","e","r","y">>,
    <<"c","o","m","b","a","t">>,
    <<"o","f","f","e","n","s","i","v","e">>,
    <<"d","e","p","l","o","y","e","d">>,
    <<"c","r","i","s","i","s">>,
    <<"e","m","e","r","g","e","n","c","y">>,
    <<"c","a","t","a","s","t","r","o","p","h","e">>,
    <<"d","i","s","a","s","t","e","r">>,
    <<"c","o","l","l","a","p","s","e">>,
    <<"m","a","r","t","i","a","l"," ","l","a","w">>,
    <<"i","r","a","n">>,
    <<"r","u","s","s","i","a">>,
    <<"c","h","i","n","a">>,
    <<"t","a","i","w","a","n">>,
    <<"u","k","r","a","i","n","e">>,
    <<"n","o","r","t","h"," ","k","o","r","e","a">>,
    <<"i","s","r","a","e","l">>,
    <<"g","a","z","a">>,
    <<"s","u","m","m","i","t">>,
    <<"s","a","n","c","t","i","o","n","s">>,
    <<"u","l","t","i","m","a","t","u","m">>,
    <<"t","h","r","e","a","t">>,
    <<"r","e","t","a","l","i","a","t","i","o","n">>,
    <<"e","s","c","a","l","a","t","i","o","n">> }

\* "Local weather update"
TitleWeather ==
  <<"L","o","c","a","l"," ","w","e","a","t","h","e","r"," ","u","p","d","a","t","e">>

\* "Russia launches missile strike"
TitleStrike ==
  <<"R","u","s","s","i","a"," ","l","a","u","n","c","h","e","s"," ","m","i","s","s","i","l","e"," ","s","t","r","i","k","e">>

\* "Film Award"
TitleAward ==
  <<"F","i","l","m"," ","A","w","a","r","d">>

UpperChars == <<"A","B","C","D","E","F","G","H","I","J","K","L","M","N","O","P","Q","R","S","T","U","V","W","X","Y","Z">>

LowerChars == <<"a","b","c","d","e","f","g","h","i","j","k","l","m","n","o","p","q","r","s","t","u","v","w","x","y","z">>


Titles == {TitleWeather, TitleStrike, TitleAward}

\* String.prototype.toLowerCase on one character
ToLowerChar(ch) ==
  IF \E k \in DOMAIN UpperChars : UpperChars[k] = ch
  THEN LowerChars[CHOOSE k \in DOMAIN UpperChars : UpperChars[k] = ch]
  ELSE ch

toLowerCase(s) == [k \in DOMAIN s |-> ToLowerChar(s[k])]

\* String.prototype.includes: kw occurs in s as a substring
includes(s, kw) ==
  \E off \in 0 .. (Len(s) - Len(kw)) :
    \A k \in 1 .. Len(kw) : s[off + k] = kw[k]

\* keywordMatches.length, tabulated once per title
keywordMatches ==
  [t \in Titles |->
     Cardinality({kw \in CRITICAL_KEYWORDS : includes(toLowerCase(t), kw)})]

----------------------------------------------------------------------------
\* getImportanceScore

Levels == {"normal", "elevated", "spike", "viral"}

\* cluster.velocity: an object with a level, or undefined
Velocities ==
  {[defined |-> FALSE, level |-> ""]} \cup
  {[defined |-> TRUE, level |-> l] : l \in Levels}

\* cluster.velocity?.level ?? 'normal'
VelocityLevel(c) == IF c.velocity.defined THEN c.velocity.level ELSE "normal"

\* velMultiplier[level] ?? 1, doubled
velMultiplier(level) ==
  CASE level = "viral"    -> 6
    [] level = "spike"    -> 5
    [] level = "elevated" -> 3
    [] level = "normal"   -> 2
    [] OTHER              -> 2

ALERT_BONUS == 50

\* Math.max(0.5, 1 - ageHours / 12) in 720ths, without the floor
recencyMultiplierNoFloor(ageMs) ==
  RecDen - (ageMs \div MsPerMinute)

\* Math.max(0.5, 1 - ageHours / 12) in 720ths; ageMs is a whole number of minutes
recencyMultiplier(ageMs) ==
  Max(RecDen \div 2, RecDen - (ageMs \div MsPerMinute))

\* the score before the alert bonus, doubled: (base + keywords) * velocity
preAlertScore(c) ==
  LET base == c.sourceCount * 15
      n    == keywordMatches[c.primaryTitle]
      kw   == IF n > 0 THEN 40 + (n * 10) ELSE 0
  IN  (base + kw) * velMultiplier(VelocityLevel(c))

\* a variant that adds the alert bonus after the recency decay
getImportanceScoreAlertLast(c, now) ==
  preAlertScore(c) * recencyMultiplier(now - c.firstSeen)
    + (IF c.isAlert THEN 2 * ALERT_BONUS * RecDen ELSE 0)

\* the score of cluster c when Date.now() reads now, as a numerator over ScoreDen
getImportanceScore(c, now) ==
  LET withAlert == preAlertScore(c) + (IF c.isAlert THEN 2 * ALERT_BONUS ELSE 0)
  IN  withAlert * recencyMultiplier(now - c.firstSeen)

----------------------------------------------------------------------------
\* selectTopStories

MAX_PER_SOURCE == 3

Sources == {"reuters", "bbc"}

\* a variant of the filter that lets single-source clusters through
passesFilterAnyCount(c) ==
  \/ c.sourceCount >= 1
  \/ c.isAlert
  \/ (c.velocity.defined /\ c.velocity.level # "normal")

\* the predicate of clusters.filter(...)
passesFilter(c) ==
  \/ c.sourceCount >= 2
  \/ c.isAlert
  \/ (c.velocity.defined /\ c.velocity.level # "normal")

RECURSIVE FilterRefs(_, _)
\* the references of the clusters of cl[k..] that pass the filter, in array order
FilterRefs(cl, k) ==
  IF k > Len(cl) THEN << >>
  ELSE IF passesFilter(cl[k]) THEN <<k>> \o FilterRefs(cl, k + 1)
       ELSE FilterRefs(cl, k + 1)

\* candidates.map(c => ({cluster: c, score: getImportanceScore(c)})); times[k] is
\* the reading of Date.now() inside the k-th call
ScoreAll(cl, cands, times) ==
  [k \in DOMAIN cands |->
     [cluster |-> cands[k], score |-> getImportanceScore(cl[cands[k]], times[k])]]

\* a comparator that sorts ascending
comesBeforeAscending(a, b) == a.score <= b.score

\* (a, b) => b.score - a.score is <= 0: a stays in front of b
comesBefore(a, b) == b.score - a.score <= 0

RECURSIVE InsertSorted(_, _)
\* e goes behind every entry that stays in front of it (Array.prototype.sort is stable)
InsertSorted(s, e) ==
  IF s = << >> THEN <<e>>
  ELSE IF comesBefore(Head(s), e) THEN <<Head(s)>> \o InsertSorted(Tail(s), e)
       ELSE <<e>> \o s

RECURSIVE SortByScore(_)
SortByScore(s) ==
  IF s = << >> THEN << >>
  ELSE InsertSorted(SortByScore(SubSeq(s, 1, Len(s) - 1)), s[Len(s)])

\* sourceCount.get(source) || 0
MapGet(m, source) == IF source \in DOMAIN m THEN m[source] ELSE 0

\* sourceCount.set(source, n)
MapSet(m, source, n) ==
  [s \in (DOMAIN m) \cup {source} |-> IF s = source THEN n ELSE m[s]]

\* a variant that admits one more cluster per source
admitsUpToCap(count) == count <= MAX_PER_SOURCE

\* count < MAX_PER_SOURCE
admits(count) == count < MAX_PER_SOURCE

\* a variant that stops one cluster late
loopBreaksLate(len, mc) == len > mc

\* selected.length >= maxCount
loopBreaks(len, mc) == len >= mc

RECURSIVE SelectLoop(_, _, _, _, _, _)
\* the for-of loop over scored, from entry k on
SelectLoop(cl, sc, k, sel, sourceCount, mc) ==
  IF k > Len(sc) THEN sel
  ELSE
    LET cluster == sc[k].cluster
        source  == cl[cluster].primarySource
        count   == MapGet(sourceCount, source)
        sel2    == IF admits(count) THEN Append(sel, cluster) ELSE sel
        cnt2    == IF admits(count) THEN MapSet(sourceCount, source, count + 1)
                   ELSE sourceCount
    IN  IF loopBreaks(Len(sel2), mc) THEN sel2
        ELSE SelectLoop(cl, sc, k + 1, sel2, cnt2, mc)

\* the sorted array `scored` of selectTopStories
ScoredOf(cl, times) == SortByScore(ScoreAll(cl, FilterRefs(cl, 1), times))

\* the array selectTopStories returns, given its sorted array
SelectedOf(cl, sc, mc) == SelectLoop(cl, sc, 1, << >>, << >>, mc)

----------------------------------------------------------------------------
\* Inputs

\* ages of the clusters scored, in milliseconds: fresh, 3 h, 6 h, 13 h
Ages == {0, 3 * MsPerHour, 6 * MsPerHour, 13 * MsPerHour}

\* the ClusteredEvent values getImportanceScore is applied to
ScoreClusters ==
  [primaryTitle : Titles, primarySource : {"reuters"},
   sourceCount : 1 .. MaxSourceCount, firstSeen : {Now0 - a : a \in Ages},
   velocity : Velocities, isAlert : BOOLEAN]

Cluster(title, source, n, age, level, alert) ==
  [primaryTitle |-> title, primarySource |-> source, sourceCount |-> n,
   firstSeen |-> Now0 - age,
   velocity |-> IF level = "" THEN [defined |-> FALSE, level |-> ""]
                ELSE [defined |-> TRUE, level |-> level],
   isAlert |-> alert]

\* the ClusteredEvent values the arrays handed to selectTopStories are made of
RankClusters ==
  { Cluster(TitleStrike,  "reuters", 1, 13 * MsPerHour, "normal", TRUE),
    Cluster(TitleWeather, "bbc", 2, 0, "normal", FALSE),
    Cluster(TitleStrike,  "reuters", 1, 0, "normal", FALSE),
    Cluster(TitleWeather, "bbc", 1, 0, "", FALSE),
    Cluster(TitleAward,   "bbc", 1, 3 * MsPerHour, "elevated", FALSE) }

SeqsUpTo(S, n) == UNION {[1 .. k -> S] : k \in 0 .. n}

\* the readings of Date.now() in n successive calls, as minutes past the first
DriftSeqs(n) ==
  {d \in [1 .. n -> 0 .. MaxDrift] : \A i, j \in 1 .. n : i <= j => d[i] <= d[j]}

----------------------------------------------------------------------------
\* Values of the variables a specification does not use

ScoreIdle == args = << >> /\ scores = << >>

RankIdle ==
  /\ clusters = << >>
  /\ maxCount = 0
  /\ scored = << >>
  /\ selected = << >>
  /\ rpc = "idle"

----------------------------------------------------------------------------
\* updateInsights

BRIEF_COOLDOWN_MS == 120000

\* the maxCount updateInsights passes to selectTopStories
TOP_STORIES == 8

\* updateInsights invocations per behaviour
MaxInvocations == 3

\* Date.now() advances by at most MaxTicks minutes per behaviour
MaxTicks == 4

\* null (cachedBrief, briefProvider, sentiments, worldBrief)
Null == "null"

Invocations == 1 .. MaxInvocations

\* the arrays updateInsights is called with
PanelInputs ==
  { << >>,
    << Cluster(TitleStrike, "reuters", 1, 0, "normal", FALSE) >>,
    << Cluster(TitleWeather, "bbc", 2, 0, "normal", FALSE),
       Cluster(TitleStrike, "reuters", 3, 0, "spike", TRUE) >> }

\* what mlWorker.classifySentiment resolves to, for n titles
SentimentResults(n) ==
  { [k \in 1 .. n |-> "negative"], [k \in 1 .. n |-> "neutral"] }

\* what generateSummary resolves to when it has a summary
SummaryResults ==
  { [summary |-> "brief A", provider |-> "groq", cached |-> FALSE],
    [summary |-> "brief B", provider |-> "cache", cached |-> TRUE] }

\* an invocation that has not started
NotStarted ==
  [pc |-> "idle", importantClusters |-> << >>, sentiments |-> Null,
   worldBrief |-> Null, now |-> 0, ended |-> "no"]

PanelIdle ==
  /\ isHidden = FALSE
  /\ lastBriefUpdate = 0
  /\ cachedBrief = Null
  /\ briefProvider = Null
  /\ content = [kind |-> "none"]
  /\ inv = [p \in Invocations |-> NotStarted]
  /\ summaryCalls = << >>
  /\ started = 0

\* setProgress(step, totalSteps, message)
Progress(step) == [kind |-> "progress", step |-> step]

\* renderInsights(clusters, sentiments, worldBrief)
Insights(cl, sentiments, worldBrief) ==
  [kind |-> "insights", clusters |-> cl, sentiments |-> sentiments,
   brief |-> worldBrief]

\* selectTopStories(clusters, 8), every call of Date.now() reading now
selectTopStories(cl, mc, now) ==
  LET cands == FilterRefs(cl, 1)
      sc    == ScoredOf(cl, [k \in DOMAIN cands |-> now])
      sel   == SelectedOf(cl, sc, mc)
  IN  [k \in DOMAIN sel |-> cl[sel[k]]]

\* !worldBrief || now - this.lastBriefUpdate > BRIEF_COOLDOWN_MS
needsBrief(worldBrief, now) ==
  worldBrief = Null \/ now - lastBriefUpdate > BRIEF_COOLDOWN_MS

\* Step 3 of updateInsights up to its await, or to the end when the cached
\* brief is used; loc holds the invocation's locals
StepThree(p, loc) ==
  LET worldBrief == cachedBrief
      now        == clock
  IN  IF needsBrief(worldBrief, now)
      THEN /\ content' = Progress(3)
           /\ summaryCalls' =
                Append(summaryCalls, [at |-> now, cached |-> cachedBrief # Null])
           /\ inv' = [inv EXCEPT ![p] =
                [loc EXCEPT !.pc = "awaitSummary", !.worldBrief = worldBrief,
                            !.now = now]]
      ELSE /\ content' = Insights(loc.importantClusters, loc.sentiments, worldBrief)
           /\ summaryCalls' = summaryCalls
           /\ inv' = [inv EXCEPT ![p] =
                [loc EXCEPT !.pc = "done", !.worldBrief = worldBrief,
                            !.now = now, !.ended = "rendered"]]

\* updateInsights(cl) from its call to its first await or return;
\* available is what mlWorker.isAvailable reads
updateInsights(cl, available) ==
  /\ started < MaxInvocations
  /\ started' = started + 1
  /\ LET p         == started + 1
         important == selectTopStories(cl, TOP_STORIES, clock)
         loc       == [NotStarted EXCEPT !.importantClusters = important]
     IN  IF isHidden
         THEN /\ inv' = [inv EXCEPT ![p] = [NotStarted EXCEPT !.pc = "done", !.ended = "hidden"]]
              /\ UNCHANGED <<content, summaryCalls>>
         ELSE IF Len(cl) = 0
         THEN /\ content' = [kind |-> "waiting"]
              /\ inv' = [inv EXCEPT ![p] = [NotStarted EXCEPT !.pc = "done", !.ended = "waiting"]]
              /\ UNCHANGED summaryCalls
         ELSE IF Len(important) = 0
         THEN /\ content' = [kind |-> "noStories"]
              /\ inv' = [inv EXCEPT ![p] = [NotStarted EXCEPT !.pc = "done", !.ended = "noStories"]]
              /\ UNCHANGED summaryCalls
         ELSE IF available
         THEN /\ content' = Progress(2)
              /\ inv' = [inv EXCEPT ![p] = [loc EXCEPT !.pc = "awaitSentiment"]]
              /\ UNCHANGED summaryCalls
         ELSE StepThree(p, loc)
  /\ UNCHANGED <<clock, isHidden, lastBriefUpdate, cachedBrief, briefProvider,
                 scoreVars, rankVars>>

\* the promise of mlWorker.classifySentiment(titles).catch(() => null) settles
\* and invocation p runs on to its next await or return
SentimentSettles(p, rejected, labels) ==
  /\ inv[p].pc = "awaitSentiment"
  /\ StepThree(p, [inv[p] EXCEPT !.sentiments = IF rejected THEN Null ELSE labels])
  /\ UNCHANGED <<clock, isHidden, lastBriefUpdate, cachedBrief, briefProvider,
                 started, scoreVars, rankVars>>

\* generateSummary calls the progress callback of invocation p
SummaryProgress(p) ==
  /\ inv[p].pc = "awaitSummary"
  /\ content # Progress(3)
  /\ content' = Progress(3)
  /\ UNCHANGED <<clock, isHidden, lastBriefUpdate, cachedBrief, briefProvider,
                 inv, summaryCalls, started, scoreVars, rankVars>>

\* the promise of generateSummary resolves with a result and invocation p runs
\* to its end
SummaryResolves(p, result) ==
  /\ inv[p].pc = "awaitSummary"
  /\ cachedBrief' = result.summary
  /\ briefProvider' = result.provider
  /\ lastBriefUpdate' = inv[p].now
  /\ content' = Insights(inv[p].importantClusters, inv[p].sentiments, result.summary)
  /\ inv' = [inv EXCEPT ![p].pc = "done", ![p].worldBrief = result.summary,
                        ![p].ended = "rendered"]
  /\ UNCHANGED <<clock, isHidden, summaryCalls, started, scoreVars, rankVars>>

\* the promise of generateSummary resolves with null
SummaryResolvesNull(p) ==
  /\ inv[p].pc = "awaitSummary"
  /\ content' = Insights(inv[p].importantClusters, inv[p].sentiments, inv[p].worldBrief)
  /\ inv' = [inv EXCEPT ![p].pc = "done", ![p].ended = "rendered"]
  /\ UNCHANGED <<clock, isHidden, lastBriefUpdate, cachedBrief, briefProvider,
                 summaryCalls, started, scoreVars, rankVars>>

\* the promise of generateSummary rejects: the catch block of updateInsights runs
SummaryRejects(p) ==
  /\ inv[p].pc = "awaitSummary"
  /\ content' = [kind |-> "error"]
  /\ inv' = [inv EXCEPT ![p].pc = "done", ![p].ended = "error"]
  /\ UNCHANGED <<clock, isHidden, lastBriefUpdate, cachedBrief, briefProvider,
                 summaryCalls, started, scoreVars, rankVars>>

\* time passes
Tick ==
  /\ clock < Now0 + MaxTicks * MsPerMinute
  /\ clock' = clock + MsPerMinute
  /\ UNCHANGED <<scoreVars, rankVars, panelVars>>

----------------------------------------------------------------------------
\* Specification of getImportanceScore: two clusters scored at the same instant

InitScore ==
  /\ clock = Now0
  /\ args \in ScoreClusters \X ScoreClusters
  /\ scores = << >>
  /\ RankIdle
  /\ PanelIdle

GetImportanceScoreCall ==
  /\ scores = << >>
  /\ args # << >>
  /\ scores' = [k \in 1 .. 2 |-> getImportanceScore(args[k], clock)]
  /\ UNCHANGED <<clock, args, rankVars, panelVars>>

NextScore == GetImportanceScoreCall

SpecScore == InitScore /\ [][NextScore]_vars

----------------------------------------------------------------------------
\* Specification of selectTopStories

InitRank ==
  /\ clock = Now0
  /\ clusters \in SeqsUpTo(RankClusters, MaxLen)
  /\ maxCount \in MinCountArg .. MaxCountArg
  /\ scored = << >>
  /\ selected = << >>
  /\ rpc = "call"
  /\ ScoreIdle
  /\ PanelIdle

SelectTopStoriesCall ==
  /\ rpc = "call"
  /\ LET cands == FilterRefs(clusters, 1)
     IN  \E d \in DriftSeqs(Len(cands)) :
           LET times == [k \in DOMAIN cands |-> clock + d[k] * MsPerMinute]
               sc    == ScoredOf(clusters, times)
           IN  /\ scored' = sc
               /\ selected' = SelectedOf(clusters, sc, maxCount)
               /\ clock' = IF cands = << >> THEN clock ELSE times[Len(cands)]
  /\ rpc' = "returned"
  /\ UNCHANGED <<clusters, maxCount, scoreVars, panelVars>>

NextRank == SelectTopStoriesCall

SpecRank == InitRank /\ [][NextRank]_vars

----------------------------------------------------------------------------
\* Specification of the panel: overlapping updateInsights invocations

Init ==
  /\ clock = Now0
  /\ isHidden \in BOOLEAN
  /\ lastBriefUpdate = 0
  /\ cachedBrief = Null
  /\ briefProvider = Null
  /\ content = [kind |-> "none"]
  /\ inv = [p \in Invocations |-> NotStarted]
  /\ summaryCalls = << >>
  /\ started = 0
  /\ ScoreIdle
  /\ RankIdle

Next ==
  \/ \E cl \in PanelInputs, available \in BOOLEAN : updateInsights(cl, available)
  \/ \E p \in Invocations :
       \E labels \in SentimentResults(Len(inv[p].importantClusters)) :
         SentimentSettles(p, FALSE, labels)
  \/ \E p \in Invocations : SentimentSettles(p, TRUE, << >>)
  \/ \E p \in Invocations : SummaryProgress(p)
  \/ \E p \in Invocations, result \in SummaryResults : SummaryResolves(p, result)
  \/ \E p \in Invocations : SummaryResolvesNull(p)
  \/ \E p \in Invocations : SummaryRejects(p)
  \/ Tick

Spec == Init /\ [][Next]_vars

----------------------------------------------------------------------------
\* Properties of getImportanceScore (SpecScore)

\* the two clusters scored agree in everything but sourceCount
SameButSourceCount ==
  /\ args[1].primaryTitle = args[2].primaryTitle
  /\ args[1].primarySource = args[2].primarySource
  /\ args[1].velocity = args[2].velocity
  /\ args[1].isAlert = args[2].isAlert
  /\ args[1].firstSeen = args[2].firstSeen

\* the two clusters scored agree in everything but isAlert; the first is the alert
SameButAlert ==
  /\ args[1].primaryTitle = args[2].primaryTitle
  /\ args[1].primarySource = args[2].primarySource
  /\ args[1].velocity = args[2].velocity
  /\ args[1].sourceCount = args[2].sourceCount
  /\ args[1].firstSeen = args[2].firstSeen
  /\ args[1].isAlert
  /\ ~args[2].isAlert

\* max(0.5, 1 - ageHours/12) in 720ths for the age of the clusters scored
ArgsRecency720 ==
  LET ageMinutes == (clock - args[1].firstSeen) \div MsPerMinute
  IN  IF ageMinutes >= 360 THEN 360 ELSE 720 - ageMinutes

\* C8: getImportanceScore is strictly increasing in sourceCount: of two clusters
\* equal in title, velocity, isAlert and firstSeen and scored at the same time,
\* the one with the larger sourceCount has the strictly larger score.
C8_StrictlyIncreasingInSourceCount ==
  (scores # << >> /\ SameButSourceCount /\ args[1].sourceCount > args[2].sourceCount)
    => scores[1] > scores[2]

\* two clusters older than the decay window, one with more sources, were scored
C8_Witness ==
  /\ scores # << >>
  /\ SameButSourceCount
  /\ args[1].sourceCount > args[2].sourceCount
  /\ clock - args[1].firstSeen > DecayHours * MsPerHour
  /\ args[1].velocity.defined /\ args[1].velocity.level = "viral"
  /\ scores[1] > scores[2]

\* C4 (as stated): for two clusters that differ only in isAlert the difference of
\* the scores is exactly 50 at every age, while the base and keyword part is
\* scaled by the recency multiplier.
C4_AlertBonusUnaffectedByRecency ==
  (scores # << >> /\ SameButAlert) =>
    /\ scores[1] - scores[2] = ALERT_BONUS * ScoreDen
    /\ scores[2] = preAlertScore(args[2]) * ArgsRecency720

\* C4 (amended): the alert bonus is added before the recency multiplication and is
\* scaled by it like the base and keyword part: for two clusters that differ only
\* in isAlert the difference of the scores is 50 * max(0.5, 1 - ageHours/12).
C4_AlertBonusScaledByRecency ==
  (scores # << >> /\ SameButAlert) =>
    /\ (scores[1] - scores[2]) * RecDen = ALERT_BONUS * ScoreDen * ArgsRecency720
    /\ scores[2] = preAlertScore(args[2]) * ArgsRecency720

\* an alert and its non-alert twin, both 3 hours old, were scored: they differ by 37.5
C4_Witness ==
  /\ scores # << >>
  /\ SameButAlert
  /\ clock - args[1].firstSeen = 3 * MsPerHour
  /\ 2 * (scores[1] - scores[2]) = 75 * ScoreDen

----------------------------------------------------------------------------
\* Properties of selectTopStories (SpecRank)

Returned == rpc = "returned"

SelectedRefs == {selected[k] : k \in DOMAIN selected}

\* the position in `scored` of the cluster with reference r
PosInScored(r) == CHOOSE k \in DOMAIN scored : scored[k].cluster = r

SourceOf(r) == clusters[r].primarySource

\* the selected clusters that stand in front of position k of `scored`
SelectedBefore(k) == {r \in SelectedRefs : PosInScored(r) < k}

\* C1 (as stated): selectTopStories returns the empty list whenever maxCount <= 0.
C1_EmptyWhenMaxCountNotPositive ==
  (Returned /\ maxCount <= 0) => selected = << >>

\* C2: the returned list contains at most 3 clusters with the same primarySource.
C2_AtMostThreePerSource ==
  Returned =>
    \A s \in Sources :
      Cardinality({k \in DOMAIN selected : SourceOf(selected[k]) = s}) <= 3

\* three clusters of one source were selected and a fourth candidate of that source
\* was passed over although the list was not full
C2_Witness ==
  /\ Returned
  /\ \E k \in DOMAIN scored :
       /\ scored[k].cluster \notin SelectedRefs
       /\ Cardinality({j \in DOMAIN selected :
                         SourceOf(selected[j]) = SourceOf(scored[k].cluster)}) = 3
  /\ Len(selected) < maxCount

\* C3: every returned cluster has sourceCount >= 2, or isAlert, or a velocity level
\* other than 'normal'; a cluster with sourceCount = 1, isAlert false and velocity
\* 'normal' or missing never appears in the output.
C3_OnlyFilteredClustersReturned ==
  Returned =>
    \A k \in DOMAIN selected :
      LET c == clusters[selected[k]]
      IN  /\ \/ c.sourceCount >= 2
             \/ c.isAlert
             \/ (c.velocity.defined /\ c.velocity.level # "normal")
          /\ ~ /\ c.sourceCount = 1
               /\ ~c.isAlert
               /\ (~c.velocity.defined \/ c.velocity.level = "normal")

\* a single-source, non-alert, normal-velocity cluster that outscores every
\* candidate was left out of a list that still had room
C3_Witness ==
  /\ Returned
  /\ selected # << >>
  /\ Len(selected) < maxCount
  /\ \E r \in DOMAIN clusters :
       /\ clusters[r].sourceCount = 1
       /\ ~clusters[r].isAlert
       /\ clusters[r].velocity.defined /\ clusters[r].velocity.level = "normal"
       /\ r \notin SelectedRefs
       /\ \A k \in DOMAIN scored :
            (clusters[r].sourceCount * 15 + 70) * 2 * RecDen > scored[k].score

\* C5: the returned list is in non-increasing order of score and is a subsequence
\* of the sorted candidate list: no reordering, no duplicates.
C5_ScoreOrderedSubsequence ==
  Returned =>
    /\ \A i \in DOMAIN selected : \E k \in DOMAIN scored : scored[k].cluster = selected[i]
    /\ \A i, j \in DOMAIN selected :
         i < j =>
           /\ PosInScored(selected[i]) < PosInScored(selected[j])
           /\ scored[PosInScored(selected[i])].score
                >= scored[PosInScored(selected[j])].score

\* a candidate was passed over and a lower-scored candidate behind it was selected
C5_Witness ==
  /\ Returned
  /\ \E k \in DOMAIN scored :
       /\ scored[k].cluster \notin SelectedRefs
       /\ \E i, j \in DOMAIN selected :
            /\ PosInScored(selected[i]) < k
            /\ k < PosInScored(selected[j])
            /\ scored[PosInScored(selected[i])].score
                 > scored[PosInScored(selected[j])].score

\* C9: for maxCount >= 1 at most maxCount clusters are returned and the selection is
\* the greedy one: a cluster that passes the filter is absent only if maxCount
\* clusters were selected before it in score order, or exactly 3 clusters selected
\* before it share its primarySource.
C9_GreedySelection ==
  (Returned /\ maxCount >= 1) =>
    /\ Len(selected) <= maxCount
    /\ \A r \in DOMAIN clusters :
         LET c == clusters[r]
         IN  ( /\ \/ c.sourceCount >= 2
                  \/ c.isAlert
                  \/ (c.velocity.defined /\ c.velocity.level # "normal")
               /\ r \notin SelectedRefs )
             => /\ \E k \in DOMAIN scored : scored[k].cluster = r
                /\ \/ Cardinality(SelectedBefore(PosInScored(r))) = maxCount
                   \/ Cardinality({q \in SelectedBefore(PosInScored(r)) :
                                     SourceOf(q) = SourceOf(r)}) = 3

\* the fourth candidate of a source was passed over with room left, and the list
\* was then filled to maxCount, leaving a later candidate out
C9_Witness ==
  /\ Returned
  /\ maxCount >= 1
  /\ Len(selected) = maxCount
  /\ \E k \in DOMAIN scored :
       /\ scored[k].cluster \notin SelectedRefs
       /\ Cardinality(SelectedBefore(k)) < maxCount
       /\ Cardinality({q \in SelectedBefore(k) :
                         SourceOf(q) = SourceOf(scored[k].cluster)}) = 3

----------------------------------------------------------------------------
\* Properties of updateInsights (Spec)

\* C6 (as stated): once the ranking has selected stories, a failure of the sentiment
\* call or of the summary call (rejected or empty) still ends the invocation by
\* rendering the selected stories, never in the error state.
C6_FailuresStillRender ==
  \A p \in Invocations :
    (inv[p].pc = "done" /\ inv[p].importantClusters # << >>)
      => inv[p].ended = "rendered"

\* C7 (as stated): once a brief is cached no two generateSummary calls are issued
\* within 120000 ms of each other.
C7_CooldownBetweenSummaryCalls ==
  \A i, j \in DOMAIN summaryCalls :
    (i < j /\ summaryCalls[i].cached /\ summaryCalls[j].cached)
      => summaryCalls[j].at - summaryCalls[i].at >= BRIEF_COOLDOWN_MS

\* C10 (as stated): lastBriefUpdate never decreases.
C10_LastBriefUpdateMonotonic ==
  [][lastBriefUpdate' >= lastBriefUpdate]_vars

====
